---- MODULE Spec2Model ----
(***************************************************************************)
(* Model of project.py: the School result store, its average and trend     *)
(* (linear regression, clipped), the report row of convert_to_dict, the    *)
(* field lookup of get_subject_order and the descending sort of            *)
(* get_sorted_school_rows.                                                 *)
(*                                                                         *)
(* Numbers: scores are integers here and every derived value is an exact   *)
(* rational <<numerator, denominator>> in lowest terms (denominator > 0);  *)
(* the rounding of IEEE doubles is not modelled.                           *)
(***************************************************************************)
EXTENDS Integers, Sequences, FiniteSets, TLC

VARIABLES name, results, added, nadds, ret

vars == <<name, results, added, nadds, ret>>

(***************************************************************************)
(* Bounds and input sets                                                   *)
(***************************************************************************)
MaxAdds == 3

FirstYear == 2021
PredictionYear == 2026

Schools == {1, 2, 3}
SchoolNames == [s \in Schools |-> CASE s = 1 -> "Alpha" [] s = 2 -> "Beta" [] OTHER -> "Gamma"]
Years == {FirstYear, FirstYear + 1, FirstYear + 2}
TargetYears == {FirstYear - 1, FirstYear + 2, PredictionYear}
TrendScores == {-5, 1, 20, 32, 64, 80, 99, 130}
StoreYears == {FirstYear, FirstYear + 1}
StoreScores == {32, 64}

(***************************************************************************)
(* class Subject(Enum)                                                     *)
(***************************************************************************)
Subject == {"POLISH", "ENGLISH", "MATH"}

(***************************************************************************)
(* Exact rational arithmetic standing for Python's float arithmetic        *)
(***************************************************************************)
Abs(i) == IF i < 0 THEN -i ELSE i

RECURSIVE GCD(_, _)
GCD(a, b) == IF b = 0 THEN a ELSE GCD(b, a % b)

Norm(n, d) ==
    LET g == GCD(Abs(n), Abs(d))
        sgn == IF d < 0 THEN -1 ELSE 1
    IN  <<sgn * (n \div g), sgn * (d \div g)>>

Rat(i) == <<i, 1>>
RAdd(p, q) == Norm(p[1] * q[2] + q[1] * p[2], p[2] * q[2])
RSub(p, q) == Norm(p[1] * q[2] - q[1] * p[2], p[2] * q[2])
RMul(p, q) == Norm(p[1] * q[1], p[2] * q[2])
RDiv(p, q) == Norm(p[1] * q[2], p[2] * q[1])
RLe(p, q) == p[1] * q[2] <= q[1] * p[2]
RLt(p, q) == p[1] * q[2] < q[1] * p[2]

RECURSIVE RSum(_)
RSum(seq) == IF seq = <<>> THEN Rat(0) ELSE RAdd(RSum(SubSeq(seq, 1, Len(seq) - 1)), seq[Len(seq)])

(***************************************************************************)
(* dict[int, float]: an insertion-ordered sequence of <<year, score>>      *)
(***************************************************************************)
DictKeys(d) == [i \in 1..Len(d) |-> d[i][1]]
DictValues(d) == [i \in 1..Len(d) |-> d[i][2]]
DictHas(d, k) == \E i \in 1..Len(d) : d[i][1] = k

DictSetKeepOld(d, k, v) == IF DictHas(d, k) THEN d ELSE Append(d, <<k, v>>)
DictSet(d, k, v) ==
    IF DictHas(d, k)
    THEN [i \in 1..Len(d) |-> IF d[i][1] = k THEN <<k, v>> ELSE d[i]]
    ELSE Append(d, <<k, v>>)

(***************************************************************************)
(* What a call does: return a value or raise an exception                  *)
(***************************************************************************)
Return(v) == [status |-> "return", value |-> v]
Raise(e) == [status |-> "raise", error |-> e]

\* a / n for a float a and an int n
PyDiv(a, n) == IF n = 0 THEN Raise("ZeroDivisionError") ELSE Return(RDiv(a, Rat(n)))

(***************************************************************************)
(* School                                                                  *)
(***************************************************************************)
has_results_outer(s, subject) == Cardinality(DOMAIN results[s]) > 0
has_results_several(s, subject) == Len(DictValues(results[s][subject])) > 1
has_results(s, subject) == Len(DictValues(results[s][subject])) > 0

calculate_average_of_keys(s, subject) ==
    IF has_results(s, subject)
    THEN PyDiv(RSum([i \in 1..Len(results[s][subject]) |-> Rat(DictKeys(results[s][subject])[i])]),
               Len(results[s][subject]))
    ELSE Return(Rat(0))
calculate_average(s, subject) ==
    IF has_results(s, subject)
    THEN PyDiv(RSum([i \in 1..Len(results[s][subject]) |-> Rat(DictValues(results[s][subject])[i])]),
               Len(results[s][subject]))
    ELSE Return(Rat(0))

\* LinearRegression().fit(x, y): an empty sample is rejected; otherwise centre
\* x and y, take the least-squares slope of the centred data (the
\* minimum-norm solution 0 when every centred x is 0) and
\* intercept = mean(y) - mean(x) * slope.  The value is <<coef, intercept>>.
FitThroughOrigin(x, y) ==
    IF Len(x) = 0 THEN Raise("ValueError")
    ELSE LET n == Len(x)
             sxx == RSum([i \in 1..n |-> RMul(Rat(x[i]), Rat(x[i]))])
             sxy == RSum([i \in 1..n |-> RMul(Rat(x[i]), Rat(y[i]))])
         IN  Return(<<RDiv(sxy, sxx), Rat(0)>>)
FitLastTwo(x, y) ==
    IF Len(x) = 0 THEN Raise("ValueError")
    ELSE LET n == Len(x)
         IN  IF n = 1 THEN Return(<<Rat(0), Rat(y[1])>>)
             ELSE LET coef == RDiv(Rat(y[n] - y[n - 1]), Rat(x[n] - x[n - 1]))
                  IN  Return(<<coef, RSub(Rat(y[n]), RMul(Rat(x[n]), coef))>>)
LinearRegressionFit(x, y) ==
    IF Len(x) = 0 THEN Raise("ValueError")
    ELSE LET n == Len(x)
             x_mean == RDiv(RSum([i \in 1..n |-> Rat(x[i])]), Rat(n))
             y_mean == RDiv(RSum([i \in 1..n |-> Rat(y[i])]), Rat(n))
             sxx == RSum([i \in 1..n |-> RMul(RSub(Rat(x[i]), x_mean), RSub(Rat(x[i]), x_mean))])
             sxy == RSum([i \in 1..n |-> RMul(RSub(Rat(x[i]), x_mean), RSub(Rat(y[i]), y_mean))])
             coef == IF sxx = Rat(0) THEN Rat(0) ELSE RDiv(sxy, sxx)
         IN  Return(<<coef, RSub(y_mean, RMul(x_mean, coef))>>)

\* model.predict(np.array([[year]]))[0]
Predict(model, year) == RAdd(RMul(Rat(year), model[1]), model[2])

\* np.clip(v, lo, hi)
ClipLowerOnly(v, lo, hi) == IF RLt(v, lo) THEN lo ELSE v
Clip(v, lo, hi) == IF RLt(v, lo) THEN lo ELSE IF RLt(hi, v) THEN hi ELSE v

calculate_trend(s, subject, year) ==
    IF ~has_results(s, subject) THEN Return(Rat(0))
    ELSE LET model == LinearRegressionFit(DictKeys(results[s][subject]), DictValues(results[s][subject]))
         IN  IF model.status = "raise" THEN model
             ELSE Return(Clip(Predict(model.value, year), Rat(0), Rat(100)))

(***************************************************************************)
(* Initial state: the schools constructed, nothing recorded                *)
(***************************************************************************)
Init ==
    /\ name = SchoolNames
    /\ results = [s \in Schools |-> [subj \in Subject |-> <<>>]]
    /\ added = [s \in Schools |-> [subj \in Subject |-> {}]]
    /\ nadds = 0
    /\ ret = [op |-> "__init__"]

(***************************************************************************)
(* School methods as steps; ret records the last call and its outcome.     *)
(* added is a history variable: per school and subject the set of          *)
(* <<year, score>> last passed to add_result for each year; nadds counts   *)
(* the add_result calls.                                                   *)
(***************************************************************************)
add_result(s, subject, year, result) ==
    /\ nadds < MaxAdds
    /\ results' = [results EXCEPT ![s][subject] = DictSet(@, year, result)]
    /\ added' = [added EXCEPT ![s][subject] = {p \in @ : p[1] # year} \cup {<<year, result>>}]
    /\ nadds' = nadds + 1
    /\ ret' = [op |-> "add_result", school |-> s, subject |-> subject, year |-> year,
               result |-> result, out |-> Return("None")]
    /\ UNCHANGED name

HasResults(s, subject) ==
    /\ ret' = [op |-> "has_results", school |-> s, subject |-> subject,
               out |-> Return(has_results(s, subject))]
    /\ UNCHANGED <<name, results, added, nadds>>

CalculateAverage(s, subject) ==
    /\ ret' = [op |-> "calculate_average", school |-> s, subject |-> subject,
               out |-> calculate_average(s, subject)]
    /\ UNCHANGED <<name, results, added, nadds>>

CalculateTrend(s, subject, year) ==
    /\ ret' = [op |-> "calculate_trend", school |-> s, subject |-> subject, year |-> year,
               out |-> calculate_trend(s, subject, year)]
    /\ UNCHANGED <<name, results, added, nadds>>

(***************************************************************************)
(* SpecTrend: average and trend of one school over a wide range of scores  *)
(***************************************************************************)
NextTrend ==
    \/ \E y \in Years, r \in TrendScores : add_result(1, "MATH", y, r)
    \/ \E subj \in {"MATH", "POLISH"} : CalculateAverage(1, subj)
    \/ \E subj \in {"MATH", "POLISH"}, y \in TargetYears : CalculateTrend(1, subj, y)

SpecTrend == Init /\ [][NextTrend]_vars

(***************************************************************************)
(* SpecStore: the result stores of two schools                             *)
(***************************************************************************)
NextStore ==
    \/ \E s \in {1, 2}, subj \in Subject, y \in StoreYears, r \in StoreScores : add_result(s, subj, y, r)
    \/ \E s \in {1, 2}, subj \in Subject : HasResults(s, subj)

SpecStore == Init /\ [][NextStore]_vars

(***************************************************************************)
(* convert_to_dict: the report row of one school                           *)
(***************************************************************************)
FirstRaise(calls) == calls[CHOOSE i \in 1..Len(calls) :
                               /\ calls[i].status = "raise"
                               /\ \A j \in 1..(i - 1) : calls[j].status = "return"]

MeanOfPresent(a, b, c, present) ==
    IF present = 0 THEN Rat(0) ELSE RDiv(RAdd(RAdd(a, b), c), Rat(present))

convert_to_dict_skip_empty(s, trend_year) ==
    LET present == Cardinality({subj \in Subject : has_results(s, subj)})
    IN  Return([school |-> name[s],
                polish_average |-> calculate_average(s, "POLISH").value,
                polish_trend |-> calculate_trend(s, "POLISH", trend_year).value,
                english_average |-> calculate_average(s, "ENGLISH").value,
                english_trend |-> calculate_trend(s, "ENGLISH", trend_year).value,
                math_average |-> calculate_average(s, "MATH").value,
                math_trend |-> calculate_trend(s, "MATH", trend_year).value,
                all_average |-> MeanOfPresent(calculate_average(s, "POLISH").value,
                                              calculate_average(s, "ENGLISH").value,
                                              calculate_average(s, "MATH").value, present),
                all_trend |-> MeanOfPresent(calculate_trend(s, "POLISH", trend_year).value,
                                            calculate_trend(s, "ENGLISH", trend_year).value,
                                            calculate_trend(s, "MATH", trend_year).value, present)])
convert_to_dict(s, trend_year) ==
    LET polish_average == calculate_average(s, "POLISH")
        polish_trend == calculate_trend(s, "POLISH", trend_year)
        english_average == calculate_average(s, "ENGLISH")
        english_trend == calculate_trend(s, "ENGLISH", trend_year)
        math_average == calculate_average(s, "MATH")
        math_trend == calculate_trend(s, "MATH", trend_year)
        calls == <<polish_average, polish_trend, english_average, english_trend,
                   math_average, math_trend>>
    IN  IF \E i \in 1..Len(calls) : calls[i].status = "raise" THEN FirstRaise(calls)
        ELSE Return([school |-> name[s],
                     polish_average |-> polish_average.value,
                     polish_trend |-> polish_trend.value,
                     english_average |-> english_average.value,
                     english_trend |-> english_trend.value,
                     math_average |-> math_average.value,
                     math_trend |-> math_trend.value,
                     all_average |-> RDiv(RAdd(RAdd(polish_average.value, english_average.value),
                                               math_average.value), Rat(3)),
                     all_trend |-> RDiv(RAdd(RAdd(polish_trend.value, english_trend.value),
                                             math_trend.value), Rat(3))])

ConvertToDict(s, trend_year) ==
    /\ ret' = [op |-> "convert_to_dict", school |-> s, year |-> trend_year,
               out |-> convert_to_dict(s, trend_year)]
    /\ UNCHANGED <<name, results, added, nadds>>

(***************************************************************************)
(* get_subject_order: indexing a dict with a missing key raises KeyError   *)
(***************************************************************************)
subjects == ("P" :> "polish") @@ ("E" :> "english") @@ ("M" :> "math") @@ ("A" :> "all")
orders == ("A" :> "average") @@ ("T" :> "trend")

get_subject_order(subject_code, order_code) ==
    IF subject_code \notin DOMAIN subjects THEN Raise("KeyError")
    ELSE IF order_code \notin DOMAIN orders THEN Raise("KeyError")
    ELSE Return(subjects[subject_code] \o "_" \o orders[order_code])

GetSubjectOrder(subject_code, order_code) ==
    /\ ret' = [op |-> "get_subject_order", subject_code |-> subject_code, order_code |-> order_code,
               out |-> get_subject_order(subject_code, order_code)]
    /\ UNCHANGED <<name, results, added, nadds>>

(***************************************************************************)
(* get_sorted_school_rows: list.sort(key=..., reverse=True) computes every *)
(* key first (KeyError on a row without the field) and then sorts stably,  *)
(* equal keys keeping their order                                          *)
(***************************************************************************)
\* the row goes behind every row already placed whose key is >= its own
InsertBeforeEqual(sorted, row, key) ==
    LET k == Cardinality({i \in 1..Len(sorted) : RLt(row[key], sorted[i][key])})
    IN  SubSeq(sorted, 1, k) \o <<row>> \o SubSeq(sorted, k + 1, Len(sorted))
InsertReverse(sorted, row, key) ==
    LET k == Cardinality({i \in 1..Len(sorted) : RLe(row[key], sorted[i][key])})
    IN  SubSeq(sorted, 1, k) \o <<row>> \o SubSeq(sorted, k + 1, Len(sorted))

RECURSIVE SortReverse(_, _)
SortReverse(rows, key) ==
    IF Len(rows) <= 1 THEN rows
    ELSE InsertReverse(SortReverse(SubSeq(rows, 1, Len(rows) - 1), key), rows[Len(rows)], key)

\* [school.convert_to_dict(trend_year) for school in schools]
RECURSIVE ConvertAll(_, _)
ConvertAll(schools, trend_year) ==
    IF schools = <<>> THEN <<>>
    ELSE <<convert_to_dict(Head(schools), trend_year)>> \o ConvertAll(Tail(schools), trend_year)

RECURSIVE Values(_)
Values(calls) == IF calls = <<>> THEN <<>> ELSE <<Head(calls).value>> \o Values(Tail(calls))

SortRowsSkipMissing(school_rows, subject_order) ==
    LET HasKey(row) == subject_order \in DOMAIN row
    IN  Return(SortReverse(SelectSeq(school_rows, HasKey), subject_order))
SortRows(school_rows, subject_order) ==
    IF \E i \in 1..Len(school_rows) : subject_order \notin DOMAIN school_rows[i]
    THEN Raise("KeyError")
    ELSE Return(SortReverse(school_rows, subject_order))

RowsOrRaise(calls, subject_order) ==
    IF \E i \in 1..Len(calls) : calls[i].status = "raise" THEN FirstRaise(calls)
    ELSE SortRows(Values(calls), subject_order)

get_sorted_school_rows(schools, subject_order, trend_year) ==
    RowsOrRaise(ConvertAll(schools, trend_year), subject_order)

GetSortedSchoolRows(schools, subject_order, trend_year) ==
    /\ ret' = [op |-> "get_sorted_school_rows", schools |-> schools, subject_order |-> subject_order,
               year |-> trend_year, out |-> get_sorted_school_rows(schools, subject_order, trend_year)]
    /\ UNCHANGED <<name, results, added, nadds>>

(***************************************************************************)
(* SpecRow: the report row of a school over its three subjects             *)
(***************************************************************************)
NextRow ==
    \/ \E s \in {1, 2}, subj \in Subject, y \in StoreYears, r \in StoreScores : add_result(s, subj, y, r)
    \/ \E s \in {1, 2} : ConvertToDict(s, FirstYear + 2)

SpecRow == Init /\ [][NextRow]_vars

(***************************************************************************)
(* SpecOrder: the field lookup over valid and invalid codes                *)
(***************************************************************************)
SubjectCodes == {"P", "E", "M", "A", "G", "Z", "", "p"}
OrderCodes == {"A", "T", "X", "", "1", "a"}

NextOrder ==
    \/ \E y \in StoreYears, r \in StoreScores : add_result(1, "MATH", y, r)
    \/ \E sc \in SubjectCodes, oc \in OrderCodes : GetSubjectOrder(sc, oc)

SpecOrder == Init /\ [][NextOrder]_vars

(***************************************************************************)
(* Spec: ranking the rows of three schools                                 *)
(***************************************************************************)
SchoolLists == {<<>>, <<1, 2, 3>>, <<3, 1, 2>>}
SortFields == {"math_average", "math_trend", "polish_trend", "math_median"}

Next ==
    \/ \E s \in Schools, y \in StoreYears, r \in StoreScores : add_result(s, "MATH", y, r)
    \/ \E l \in SchoolLists, f \in SortFields : GetSortedSchoolRows(l, f, PredictionYear)

Spec == Init /\ [][Next]_vars

(***************************************************************************)
(* Reference definitions used to state the properties: sums over the set   *)
(* of recorded <<year, score>> pairs, the closed-form least-squares line   *)
(* and the clamp to [0, 100]                                               *)
(***************************************************************************)
RECURSIVE PairSum(_, _)
PairSum(P, what) ==
    IF P = {} THEN 0
    ELSE LET p == CHOOSE q \in P : TRUE
             term == CASE what = "x" -> p[1]
                       [] what = "y" -> p[2]
                       [] what = "xy" -> p[1] * p[2]
                       [] OTHER -> p[1] * p[1]
         IN  term + PairSum(P \ {p}, what)

\* value at t of the line a*x + b minimising the squared error over P (two or more years)
OLSAt(P, t) ==
    LET n == Cardinality(P)
        sx == PairSum(P, "x")
        sy == PairSum(P, "y")
        a == Norm(n * PairSum(P, "xy") - sx * sy, n * PairSum(P, "xx") - sx * sx)
        b == RDiv(RSub(Rat(sy), RMul(a, Rat(sx))), Rat(n))
    IN  RAdd(RMul(a, Rat(t)), b)

Clamped(v) == IF RLt(v, Rat(0)) THEN Rat(0) ELSE IF RLt(Rat(100), v) THEN Rat(100) ELSE v

PairsOf(d) == {d[i] : i \in 1..Len(d)}
Recorded == added[ret.school][ret.subject]

(***************************************************************************)
(* Properties of calculate_trend and calculate_average (SpecTrend)         *)
(***************************************************************************)
\* C1: calculate_trend always returns a value in [0, 100], whatever was recorded:
\* a fitted prediction below 0 gives 0, one above 100 gives 100; (2021, 80),
\* (2022, 99) gives 100 at 2023 and (2021, 20), (2022, 1) gives 0 at 2023.
C1_TrendWithinBounds ==
    ret.op = "calculate_trend" =>
        /\ ret.out.status = "return"
        /\ RLe(Rat(0), ret.out.value)
        /\ RLe(ret.out.value, Rat(100))
        /\ (Cardinality(Recorded) >= 2 /\ RLt(OLSAt(Recorded, ret.year), Rat(0)))
               => ret.out.value = Rat(0)
        /\ (Cardinality(Recorded) >= 2 /\ RLt(Rat(100), OLSAt(Recorded, ret.year)))
               => ret.out.value = Rat(100)
        /\ (Recorded = {<<2021, 80>>, <<2022, 99>>} /\ ret.year = 2023) => ret.out.value = Rat(100)
        /\ (Recorded = {<<2021, 20>>, <<2022, 1>>} /\ ret.year = 2023) => ret.out.value = Rat(0)

C1_Witness ==
    /\ ret.op = "calculate_trend"
    /\ Recorded = {<<2021, 80>>, <<2022, 99>>}
    /\ ret.year = 2023
    /\ ret.out = Return(Rat(100))

\* C2: with two or more recorded years calculate_trend returns the value of the
\* least-squares line at the target year, clamped to [0, 100]; (2021, 32),
\* (2022, 64) gives 96 at 2023.
C2_TrendIsLeastSquares ==
    (ret.op = "calculate_trend" /\ Cardinality(Recorded) >= 2) =>
        /\ ret.out = Return(Clamped(OLSAt(Recorded, ret.year)))
        /\ (Recorded = {<<2021, 32>>, <<2022, 64>>} /\ ret.year = 2023) => ret.out.value = Rat(96)

C2_Witness ==
    /\ ret.op = "calculate_trend"
    /\ Recorded = {<<2021, 32>>, <<2022, 64>>}
    /\ ret.year = 2023
    /\ ret.out = Return(Rat(96))

\* C3: with at least one recorded score calculate_average returns the sum of the
\* stored scores (the last one added per year) divided by their number,
\* whatever the order of the add_result calls.
C3_AverageIsMean ==
    (ret.op = "calculate_average" /\ Recorded # {}) =>
        ret.out = Return(Norm(PairSum(Recorded, "y"), Cardinality(Recorded)))

\* two years recorded latest first, one of them overwritten
C3_Witness ==
    /\ ret.op = "calculate_average"
    /\ Cardinality(Recorded) = 2
    /\ nadds = 3
    /\ DictKeys(results[ret.school][ret.subject]) = <<2022, 2021>>
    /\ ret.out = Return(Rat(48))

\* C4: with nothing recorded for the subject calculate_average and
\* calculate_trend (any target year) return exactly 0 and do not raise.
C4_NoResultsGiveZero ==
    (ret.op \in {"calculate_average", "calculate_trend"} /\ Recorded = {}) =>
        /\ ret.out.status = "return"
        /\ ret.out.value = Rat(0)

\* the trend of a subject without results in a school that has results elsewhere
C4_Witness ==
    /\ ret.op = "calculate_trend"
    /\ Recorded = {}
    /\ added[ret.school]["MATH"] # {}
    /\ ret.out = Return(Rat(0))

\* C5: with exactly one recorded pair calculate_trend returns that score clamped
\* to [0, 100] for a target year before, at or after the recorded year.
C5_SinglePointTrend ==
    (ret.op = "calculate_trend" /\ Cardinality(Recorded) = 1) =>
        \A p \in Recorded : ret.out = Return(Clamped(Rat(p[2])))

\* one out-of-range score, asked for a year before the recorded one
C5_Witness ==
    /\ ret.op = "calculate_trend"
    /\ Recorded = {<<2022, 130>>}
    /\ ret.year < 2022
    /\ ret.out = Return(Rat(100))

(***************************************************************************)
(* Properties of the result store (SpecStore)                              *)
(***************************************************************************)
StoredAt(d, year) == {p \in PairsOf(d) : p[1] = year}

StoreHoldsLastAdded ==
    \A s \in Schools, subj \in Subject :
        /\ PairsOf(results[s][subj]) = added[s][subj]
        /\ Len(results[s][subj]) = Cardinality(added[s][subj])

AddResultFrame ==
    (nadds' # nadds) =>
        /\ ret'.op = "add_result"
        /\ StoredAt(results'[ret'.school][ret'.subject], ret'.year) = {<<ret'.year, ret'.result>>}
        /\ \A s \in Schools, subj \in Subject, y \in Years :
               (<<s, subj, y>> # <<ret'.school, ret'.subject, ret'.year>>)
                   => StoredAt(results'[s][subj], y) = StoredAt(results[s][subj], y)
        /\ name' = name

\* C9: add_result(subject, year, score) stores score for (subject, year) of that
\* school, replacing an earlier score of the pair, and changes no other entry,
\* no name and no other school; the store always holds, per (subject, year),
\* exactly the last score added and nothing for pairs never added.
C9_AddResultOverwritesOnlyItsEntry == [](StoreHoldsLastAdded) /\ [][AddResultFrame]_vars

\* an overwrite in school 1 while school 2 holds a result
C9_Witness ==
    /\ ret.op = "add_result"
    /\ nadds = 3
    /\ ret.school = 1 /\ ret.subject = "MATH" /\ ret.year = 2021 /\ ret.result = 64
    /\ results[1]["MATH"] = <<<<2021, 64>>>>
    /\ results[2]["POLISH"] = <<<<2021, 32>>>>

SubjectsAreKeys == \A s \in Schools : DOMAIN results[s] = Subject

HasResultsIffAdded ==
    /\ \A s \in Schools, subj \in Subject : has_results(s, subj) <=> (added[s][subj] # {})
    /\ (ret.op = "has_results") => ret.out = Return(Recorded # {})

HasResultsStays ==
    \A s \in Schools, subj \in Subject : has_results(s, subj) => has_results(s, subj)'

\* C10: POLISH, ENGLISH and MATH are always keys of results; has_results(subject)
\* is true exactly when add_result was called for the subject, and once true it
\* stays true.
C10_HasResultsIffAdded == [](SubjectsAreKeys /\ HasResultsIffAdded) /\ [][HasResultsStays]_vars

C10_Witness ==
    /\ ret.op = "has_results"
    /\ ret.out = Return(TRUE)
    /\ \E subj \in Subject : ~has_results(ret.school, subj)

(***************************************************************************)
(* Properties of the report row (SpecRow)                                  *)
(***************************************************************************)
Third(v) == RDiv(v, Rat(3))

SetMean(P) == IF P = {} THEN Rat(0) ELSE Norm(PairSum(P, "y"), Cardinality(P))

\* C6: in a row of convert_to_dict all_average and all_trend are the sums of the
\* three subject averages and trends divided by 3, a subject without results
\* counting as 0; for a school with only MATH results both are a third of
\* math_average and math_trend, which are calculate_average(MATH) and
\* calculate_trend(MATH, target year).
C6_CombinedIsMeanOfThree ==
    ret.op = "convert_to_dict" =>
        /\ ret.out.status = "return"
        /\ LET row == ret.out.value
               rec == added[ret.school]
           IN  /\ row.all_average =
                      Third(RAdd(RAdd(row.polish_average, row.english_average), row.math_average))
               /\ row.all_trend =
                      Third(RAdd(RAdd(row.polish_trend, row.english_trend), row.math_trend))
               /\ rec["POLISH"] = {} => (row.polish_average = Rat(0) /\ row.polish_trend = Rat(0))
               /\ rec["ENGLISH"] = {} => (row.english_average = Rat(0) /\ row.english_trend = Rat(0))
               /\ rec["MATH"] = {} => (row.math_average = Rat(0) /\ row.math_trend = Rat(0))
               /\ row.math_average = SetMean(rec["MATH"])
               /\ Return(row.math_average) = calculate_average(ret.school, "MATH")
               /\ Return(row.math_trend) = calculate_trend(ret.school, "MATH", ret.year)
               /\ (rec["POLISH"] = {} /\ rec["ENGLISH"] = {}) =>
                      /\ row.all_average = Third(SetMean(rec["MATH"]))
                      /\ row.all_trend = Third(row.math_trend)

\* a school with MATH results only: average 48, trend 96, combined 16 and 32
C6_Witness ==
    /\ ret.op = "convert_to_dict"
    /\ added[ret.school] = [subj \in Subject |->
                               IF subj = "MATH" THEN {<<2021, 32>>, <<2022, 64>>} ELSE {}]
    /\ ret.out.value.math_average = Rat(48)
    /\ ret.out.value.math_trend = Rat(96)
    /\ ret.out.value.all_average = Rat(16)
    /\ ret.out.value.all_trend = Rat(32)

(***************************************************************************)
(* Properties of the ranking (Spec)                                        *)
(***************************************************************************)
RowFields == {"polish_average", "polish_trend", "english_average", "english_trend",
              "math_average", "math_trend", "all_average", "all_trend"}

\* out is built by a one-to-one placement p of the rows of built that never
\* lets the key increase and keeps rows of equal key in their order in built
StableDescendingPermutation(built, out, key) ==
    /\ Len(out) = Len(built)
    /\ \E p \in Permutations(1..Len(built)) :
           /\ \A i \in 1..Len(out) : out[i] = built[p[i]]
           /\ \A i, j \in 1..Len(out) :
                  (i < j) => /\ RLe(out[j][key], out[i][key])
                             /\ (out[i][key] = out[j][key]) => (p[i] < p[j])

\* C7: get_sorted_school_rows returns one row per input school, a permutation
\* of the rows built from the input, in an order in which the selected field
\* never increases and rows of equal value keep the order of their schools in
\* the input; an empty input gives an empty result.
C7_RankIsStableDescending ==
    (ret.op = "get_sorted_school_rows" /\ ret.subject_order \in RowFields) =>
        /\ ret.out.status = "return"
        /\ StableDescendingPermutation(Values(ConvertAll(ret.schools, ret.year)),
                                       ret.out.value, ret.subject_order)
        /\ (ret.schools = <<>>) => (ret.out.value = <<>>)

\* Beta has the only MATH result: it moves to the front, and the tied rows of
\* Gamma and Alpha stay in input order
C7_Witness ==
    /\ ret.op = "get_sorted_school_rows"
    /\ ret.subject_order = "math_average"
    /\ ret.schools = <<3, 1, 2>>
    /\ ret.out.status = "return"
    /\ [i \in 1..3 |-> ret.out.value[i].school] = <<"Beta", "Gamma", "Alpha">>
    /\ ret.out.value[2].math_average = ret.out.value[3].math_average
    /\ RLt(ret.out.value[2].math_average, ret.out.value[1].math_average)

(***************************************************************************)
(* Properties of the field lookup (SpecOrder)                              *)
(***************************************************************************)
\* C8: for a subject code outside {P, E, M, A} or an order code outside {A, T}
\* (the empty string and lowercase forms included) get_subject_order returns no
\* field name and fails with an invalid-argument error, which in Python is
\* ValueError, the exception the function's docstring announces.
C8_InvalidCodeRaisesValueError ==
    (/\ ret.op = "get_subject_order"
     /\ \/ ret.subject_code \notin {"P", "E", "M", "A"}
        \/ ret.order_code \notin {"A", "T"})
        => ret.out = Raise("ValueError")

(***************************************************************************)
(* MockSchool of the tests: convert_to_dict gives the name and whatever    *)
(* fields the mock was built with                                          *)
(***************************************************************************)
MaxMocks == 3

MockSchool(mock_name, result_data) == [name |-> mock_name, result_data |-> result_data]

MockSchools ==
    { MockSchool("Alpha", ("math_average" :> Rat(65)) @@ ("math_trend" :> Rat(84))),
      MockSchool("Beta", ("math_average" :> Rat(82)) @@ ("math_trend" :> <<135, 2>>)),
      MockSchool("Gamma", ("math_average" :> Rat(75)) @@ ("math_trend" :> Rat(70))),
      MockSchool("Delta", ("english_average" :> Rat(60))) }

\* {"school": self.name, **self.result_data}
mock_convert_to_dict(mock, trend_year) == Return(mock.result_data @@ ("school" :> mock.name))

RECURSIVE MockConvertAll(_, _)
MockConvertAll(mocks, trend_year) ==
    IF mocks = <<>> THEN <<>>
    ELSE <<mock_convert_to_dict(Head(mocks), trend_year)>> \o MockConvertAll(Tail(mocks), trend_year)

GetSortedMockRows(mocks, subject_order, trend_year) ==
    /\ ret' = [op |-> "get_sorted_school_rows", mocks |-> mocks, subject_order |-> subject_order,
               year |-> trend_year,
               out |-> RowsOrRaise(MockConvertAll(mocks, trend_year), subject_order)]
    /\ UNCHANGED <<name, results, added, nadds>>

(***************************************************************************)
(* SpecMock: ranking lists of mock schools and of schools without results  *)
(***************************************************************************)
MockLists ==
    {l \in UNION {[1..n -> MockSchools] : n \in 0..MaxMocks} :
        \A i, j \in 1..Len(l) : (i # j) => (l[i] # l[j])}
MockFields == {"math_average", "math_trend", "english_average"}

NextMock ==
    \/ \E l \in MockLists, f \in MockFields : GetSortedMockRows(l, f, PredictionYear - 1)
    \/ \E l \in SchoolLists, f \in SortFields : GetSortedSchoolRows(l, f, PredictionYear)

SpecMock == Init /\ [][NextMock]_vars

(***************************************************************************)
(* Properties of the ranking of rows that lack the field (SpecMock)        *)
(***************************************************************************)
\* the rows the last get_sorted_school_rows call built from its input
BuiltRows ==
    IF "mocks" \in DOMAIN ret THEN Values(MockConvertAll(ret.mocks, ret.year))
    ELSE Values(ConvertAll(ret.schools, ret.year))

\* C11: get_sorted_school_rows raises a lookup error (KeyError) and returns
\* nothing whenever the selected field is absent from at least one built row,
\* whichever position that row has and whatever the other rows hold.
C11_MissingFieldRaisesKeyError ==
    (/\ ret.op = "get_sorted_school_rows"
     /\ \E i \in 1..Len(BuiltRows) : ret.subject_order \notin DOMAIN BuiltRows[i])
        => ret.out = Raise("KeyError")

\* only the last of three rows lacks math_average
C11_Witness ==
    /\ ret.op = "get_sorted_school_rows"
    /\ "mocks" \in DOMAIN ret
    /\ Len(ret.mocks) = 3
    /\ ret.subject_order = "math_average"
    /\ "math_average" \in DOMAIN BuiltRows[1]
    /\ "math_average" \in DOMAIN BuiltRows[2]
    /\ "math_average" \notin DOMAIN BuiltRows[3]
    /\ ret.out = Raise("KeyError")

(***************************************************************************)
(* Strings of the CSV rows are sequences of characters.  float() and int() *)
(* are modelled on the alphabet used here (digits, "." and letters): a     *)
(* number is a non-empty run of digits with at most one "."                *)
(***************************************************************************)
MaxRows == 3

DigitValue == ("0" :> 0) @@ ("1" :> 1) @@ ("2" :> 2) @@ ("3" :> 3) @@ ("4" :> 4) @@
              ("5" :> 5) @@ ("6" :> 6) @@ ("7" :> 7) @@ ("8" :> 8) @@ ("9" :> 9)

RECURSIVE DigitsValue(_)
DigitsValue(str) ==
    IF str = <<>> THEN 0
    ELSE 10 * DigitsValue(SubSeq(str, 1, Len(str) - 1)) + DigitValue[str[Len(str)]]

RECURSIVE Pow10(_)
Pow10(k) == IF k = 0 THEN 1 ELSE 10 * Pow10(k - 1)

IsDigit(c) == c \in DOMAIN DigitValue
IsPoint(c) == c = "."

\* str.replace(old, new) for single characters
Replace(str, old, new) == [i \in 1..Len(str) |-> IF str[i] = old THEN new ELSE str[i]]

\* float(str)
PyFloat(str) ==
    LET points == {i \in 1..Len(str) : IsPoint(str[i])}
    IN  IF \/ \E i \in 1..Len(str) : ~IsDigit(str[i]) /\ ~IsPoint(str[i])
           \/ Cardinality(points) > 1
           \/ \A i \in 1..Len(str) : ~IsDigit(str[i])
        THEN Raise("ValueError")
        ELSE LET after == IF points = {} THEN 0 ELSE Len(str) - (CHOOSE i \in points : TRUE)
             IN  Return(Norm(DigitsValue(SelectSeq(str, IsDigit)), Pow10(after)))

\* int(str)
PyInt(str) ==
    IF str = <<>> \/ \E i \in 1..Len(str) : ~IsDigit(str[i]) THEN Raise("ValueError")
    ELSE Return(DigitsValue(str))

convert_to_float(number_as_string) ==
    IF number_as_string = <<>> THEN Return(Rat(0))
    ELSE PyFloat(Replace(number_as_string, ",", "."))

\* truth value of a str in an if
TruthyAlways(str) == TRUE
Truthy(str) == str # <<>>

(***************************************************************************)
(* read_schools: a School object per name, kept in insertion order         *)
(***************************************************************************)
NewSchool(school_name) == [name |-> school_name, results |-> [subj \in Subject |-> <<>>]]

InSchools(schools_by_name, school_name) ==
    \E i \in 1..Len(schools_by_name) : schools_by_name[i].name = school_name

\* school.add_result(subject, year, result) on the School kept under school_name
AddResultByName(schools_by_name, school_name, subject, year, result) ==
    [i \in 1..Len(schools_by_name) |->
        IF schools_by_name[i].name = school_name
        THEN [schools_by_name[i] EXCEPT !.results[subject] = DictSet(@, year, result)]
        ELSE schools_by_name[i]]

\* if row[column]: school.add_result(subject, int(year), convert_to_float(row[column]))
\* state is Return(schools_by_name) or the exception already raised
ReadField(state, school_name, subject, year, field) ==
    IF state.status = "raise" \/ ~Truthy(field) THEN state
    ELSE IF PyInt(year).status = "raise" THEN PyInt(year)
    ELSE IF convert_to_float(field).status = "raise" THEN convert_to_float(field)
    ELSE Return(AddResultByName(state.value, school_name, subject,
                                PyInt(year).value, convert_to_float(field).value))

\* the body of the loop over the rows of one file
ReadRow(schools_by_name, year, city, row) ==
    IF row.city # city THEN Return(schools_by_name)
    ELSE LET created == IF InSchools(schools_by_name, row.school) THEN schools_by_name
                        ELSE Append(schools_by_name, NewSchool(row.school))
         IN  ReadField(ReadField(ReadField(Return(created),
                                           row.school, "POLISH", year, row.polish_average),
                                 row.school, "ENGLISH", year, row.english_average),
                       row.school, "MATH", year, row.math_average)

Running == [status |-> "running"]

\* history: the non-empty fields of the rows of the selected city read so far
SeenIn(year, row) ==
    {[school |-> row.school, subject |-> f[1], year |-> DigitsValue(year), field |-> f[2]] :
        f \in {g \in {<<"POLISH", row.polish_average>>, <<"ENGLISH", row.english_average>>,
                      <<"MATH", row.math_average>>} : g[2] # <<>>}}

\* read_schools(years, city) up to the opening of the first file
ReadSchoolsOpen(years, city) ==
    /\ ret' = [op |-> "read_schools", years |-> years, city |-> city, file |-> 1,
               schools_by_name |-> <<>>, seen |-> {}, nrows |-> 0,
               out |-> IF years = <<>> THEN Return(<<>>) ELSE Running]
    /\ UNCHANGED <<name, results, added, nadds>>

\* one row of the current file
ReadSchoolsRow(row) ==
    /\ ret.op = "read_schools"
    /\ ret.out = Running
    /\ ret.nrows < MaxRows
    /\ LET year == ret.years[ret.file]
           after == ReadRow(ret.schools_by_name, year, ret.city, row)
       IN  ret' = [ret EXCEPT
                      !.nrows = @ + 1,
                      !.seen = IF row.city = ret.city THEN @ \cup SeenIn(year, row) ELSE @,
                      !.schools_by_name = IF after.status = "return" THEN after.value ELSE @,
                      !.out = IF after.status = "return" THEN Running ELSE after]
    /\ UNCHANGED <<name, results, added, nadds>>

\* the current file ends: the next one is opened, or the list of schools returned
ReadSchoolsEndOfFile ==
    /\ ret.op = "read_schools"
    /\ ret.out = Running
    /\ ret' = IF ret.file < Len(ret.years)
              THEN [ret EXCEPT !.file = @ + 1]
              ELSE [ret EXCEPT !.out = Return(ret.schools_by_name)]
    /\ UNCHANGED <<name, results, added, nadds>>

(***************************************************************************)
(* SpecIngest: read_schools over two yearly files                          *)
(***************************************************************************)
Cities == {"Warsaw", "Krakow"}
YearStrings == {<<>>, << <<"2", "0", "2", "1">>, <<"2", "0", "2", "2">> >>}
CsvRows ==
    [city : Cities,
     school : {"Alpha", "Beta"},
     polish_average : {<<>>, <<"6", "4", ",", "5">>},
     english_average : {<<>>, <<"0">>},
     math_average : {<<>>, <<"3", "2">>, <<"A">>}]

NextIngest ==
    \/ \E years \in YearStrings : ReadSchoolsOpen(years, "Warsaw")
    \/ \E row \in CsvRows : ReadSchoolsRow(row)
    \/ ReadSchoolsEndOfFile

SpecIngest == Init /\ [][NextIngest]_vars

(***************************************************************************)
(* Properties of the ingestion (SpecIngest)                                *)
(***************************************************************************)
\* C12: read_schools records nothing for an empty score field: an entry for
\* (subject, year) in a school's store comes from a non-empty field of a row of
\* that school, subject and year in the selected city and holds that field's
\* number; no 0 is stored for an empty field.
C12_EmptyFieldRecordsNothing ==
    ret.op = "read_schools" =>
        \A i \in 1..Len(ret.schools_by_name), subj \in Subject :
            \A e \in PairsOf(ret.schools_by_name[i].results[subj]) :
                \E t \in ret.seen :
                    /\ t.school = ret.schools_by_name[i].name
                    /\ t.subject = subj
                    /\ t.year = e[1]
                    /\ t.field # <<>>
                    /\ convert_to_float(t.field) = Return(e[2])

\* one row read, with a POLISH score and empty ENGLISH and MATH fields: the
\* returned school holds the POLISH score of 2021 and nothing else
C12_Witness ==
    /\ ret.op = "read_schools"
    /\ ret.nrows = 1
    /\ ret.out = Return(<<[name |-> "Alpha",
                          results |-> [subj \in Subject |->
                                          IF subj = "POLISH" THEN <<<<2021, <<129, 2>>>>>>
                                          ELSE <<>>]]>>)

====
